---- MODULE Spec2Model ----
(***************************************************************************)
(* Model of src/src/main/window/WindowManager.ts: the window registry      *)
(* (this.windows), the asynchronous createWindow, the IPC handlers, the    *)
(* backend event fan-out, the UI style and the close-to-tray rule.         *)
(*                                                                         *)
(* A BrowserWindow is named by its Electron id (window.id, 1, 2, ...); the *)
(* registry is keyed by the uuid drawn in createWindow. Every handler of   *)
(* the single-threaded event loop is one action. createWindow is split at  *)
(* its await: CreateWindow is the part before it, LoadFinished the part    *)
(* after it.                                                               *)
(***************************************************************************)
EXTENDS Integers, Sequences, FiniteSets

\* Number of createWindow calls a run may make.
MaxWindows == 2
\* Number of events the backend emits (E1, E2, E3).
MaxEvents == 3
\* Number of tabs the renderers hand over (each tab is handed over once).
MaxTabs == 1
\* Number of 'tab:dropIndicator' messages a run may deliver.
MaxIndicators == 1

WinIds == 1..MaxWindows
Events == 1..MaxEvents
Tabs == 1..MaxTabs
Styles == {"classic", "glass"}

VARIABLES
  windows,                \* this.windows: the Map, as its entries in insertion order
  bw,                     \* the BrowserWindow objects, by Electron id
  inbox,                  \* what each window's webContents has been sent, in order
  currentUIStyle,         \* module variable currentUIStyle
  closeToTrayEnabled,     \* module variable closeToTrayEnabled
  onTrayVisibilityUpdate, \* module variable: TRUE once a callback is set (else null)
  eventHandlers,          \* callbacks registered with zmqBridge.onEvent
  emitted,                \* events the backend has emitted so far
  dispatched,             \* tabs the renderers have already handed over
  issued,                 \* the uuids createWindow has drawn, in order
  removed,                \* the keys the 'closed' callbacks have deleted
  platform,               \* process.platform and the Electron build
  styled,                 \* the windows the last handler called applyWindowStyle on
  reply,                  \* the last lookup request: what it returned, what it focused
  trayCalls,              \* onTrayVisibilityUpdate() calls made by the last handler
  threw                   \* whether the last handler threw

vars == <<windows, bw, inbox, currentUIStyle, closeToTrayEnabled,
          onTrayVisibilityUpdate, eventHandlers, emitted, dispatched,
          issued, removed, platform, styled, reply, trayCalls, threw>>

----------------------------------------------------------------------------
(* Identifiers. A registry key is a uuid string; window.id is Electron's   *)
(* integer id. The two never compare equal.                                *)

Uuid(n) == [kind |-> "uuid", n |-> n]
ElectronId(n) == [kind |-> "number", n |-> n]

\* The ids a renderer may put in a request: any key, any window.id it was
\* handed back.
RequestIds == {Uuid(n) : n \in WinIds} \cup {ElectronId(n) : n \in WinIds}

----------------------------------------------------------------------------
(* Map<string, BrowserWindow> as a sequence of entries.                    *)

MapKeys(m) == {m[i].key : i \in DOMAIN m}
MapHas(m, k) == k \in MapKeys(m)
MapIndex(m, k) == CHOOSE i \in DOMAIN m : m[i].key = k
MapGet(m, k) == m[MapIndex(m, k)].win
MapValues(m) == [i \in DOMAIN m |-> m[i].win]
SelectSeqNotKey(m, k) == SelectSeq(m, LAMBDA e : e.key # k)

MapSet(m, k, w) ==
  IF MapHas(m, k)
  THEN [m EXCEPT ![MapIndex(m, k)] = [key |-> k, win |-> w]]
  ELSE Append(m, [key |-> k, win |-> w])

\* A delete that drops the newest entry whatever the key.
MapDeleteNewest(m, k) == SubSeq(m, 1, Len(m) - 1)

MapDelete(m, k) == SelectSeqNotKey(m, k)

----------------------------------------------------------------------------
(* uuidv4(): a value that was never drawn before.                          *)

uuidv4 == Uuid(Len(issued) + 1)

----------------------------------------------------------------------------
(* What a handler leaves behind for the tray and for its caller.           *)

NoId == Uuid(0)

\* onTrayVisibilityUpdate is called only when it is not null.
TrayCalls == IF onTrayVisibilityUpdate THEN 1 ELSE 0

----------------------------------------------------------------------------
(* BrowserWindow objects.                                                  *)

NoWindow ==
  [status |-> "none", visible |-> FALSE, pc |-> "none", ready |-> FALSE,
   tabData |-> <<>>, timer |-> FALSE, caller |-> "none", windowId |-> NoId,
   bg |-> "none", material |-> "default"]

\* A window constructed without show: false, visible from the start.
NewBrowserWindowShown(windowId, tabData, caller) ==
  [status |-> "open", visible |-> TRUE, pc |-> "loading", ready |-> FALSE,
   tabData |-> tabData, timer |-> FALSE, caller |-> caller,
   windowId |-> windowId,
   bg |-> IF platform.win32 THEN "#00000000" ELSE "theme",
   material |-> "default"]

\* new BrowserWindow({... show: false ...}) with the closure variables of the
\* createWindow call that made it; the call is now at its await.
NewBrowserWindow(windowId, tabData, caller) ==
  [status |-> "open", visible |-> FALSE, pc |-> "loading", ready |-> FALSE,
   tabData |-> tabData, timer |-> FALSE, caller |-> caller,
   windowId |-> windowId,
   bg |-> IF platform.win32 THEN "#00000000" ELSE "theme",
   material |-> "default"]

IsDestroyed(w) == bw[w].status = "destroyed"

\* applyWindowStyle(window, style): nothing off Windows; a destroyed window
\* makes setBackgroundColor throw, which the try/catch swallows.
applyWindowStyle(b, style) ==
  IF ~platform.win32 \/ b.status = "destroyed" THEN b
  ELSE IF style = "glass"
       THEN [b EXCEPT !.bg = "#00000000",
                      !.material = IF platform.material THEN "acrylic" ELSE @]
       ELSE [b EXCEPT !.bg = "#00000001",
                      !.material = IF platform.material THEN "none" ELSE @]

\* zmqBridge.onEvent(callback): the bridge keeps one more callback.
onEvent(handlers) == handlers + 1

----------------------------------------------------------------------------
\* The builds the style code tells apart: process.platform is win32 or not,
\* and the Electron build has BrowserWindow.setBackgroundMaterial or not.
Platforms == [win32 : BOOLEAN, material : BOOLEAN]

\* The program for Windows on an Electron that has setBackgroundMaterial.
Windows11 == [win32 |-> TRUE, material |-> TRUE]

\* The state once the WindowManager is constructed, on platform p.
\* No lookup request was the last handler. A return value is a set: {} is
\* null or undefined.
NoReply == [req |-> "none", ret |-> {}, focused |-> {}]

InitOn(p) ==
  /\ windows = <<>>
  /\ bw = [w \in WinIds |-> NoWindow]
  /\ inbox = [w \in WinIds |-> <<>>]
  /\ currentUIStyle = "classic"
  /\ closeToTrayEnabled = FALSE
  /\ onTrayVisibilityUpdate = FALSE
  /\ eventHandlers = 0
  /\ emitted = 0
  /\ dispatched = {}
  /\ issued = <<>>
  /\ removed = {}
  /\ platform = p
  /\ styled = <<>>
  /\ reply = NoReply
  /\ trayCalls = 0
  /\ threw = FALSE

Init == InitOn(Windows11)

InitAnyPlatform == \E p \in Platforms : InitOn(p)

----------------------------------------------------------------------------
(* createWindow, up to its await (lines 154-212): draws the id, constructs *)
(* the window, registers it, arms 'ready-to-show', subscribes to the       *)
(* bridge and starts the load.                                             *)

CreateWindow(caller, tabData) ==
  LET w == Len(issued) + 1
      windowId == uuidv4
  IN /\ Len(issued) < MaxWindows
     /\ windows' = MapSet(windows, windowId, w)
     /\ bw' = [bw EXCEPT ![w] = NewBrowserWindow(windowId, tabData, caller)]
     /\ eventHandlers' = onEvent(eventHandlers)
     /\ issued' = Append(issued, windowId)
     /\ styled' = <<>>
     /\ reply' = NoReply
     /\ trayCalls' = 0
     /\ threw' = FALSE
     /\ UNCHANGED <<inbox, currentUIStyle, closeToTrayEnabled,
                    onTrayVisibilityUpdate, emitted, removed, platform>>

\* createMainWindow(): createWindow({}).
CreateMainWindow ==
  /\ CreateWindow("createMainWindow", <<>>)
  /\ UNCHANGED dispatched

\* ipcMain.handle('window:createWithTab'): createWindow({x, y, tabData}).
CreateWithTab(t) ==
  /\ t \notin dispatched
  /\ dispatched' = dispatched \cup {t}
  /\ CreateWindow("window:createWithTab", <<t>>)

\* What window:createWithTab returns once createWindow has returned window w:
\* window.id, Electron's id of the BrowserWindow (line 46).
createWithTabReply(w) == ElectronId(w)

\* The rest of createWindow (lines 214-243), once the load has resolved: the
\* 'close', 'closed' and 'show' handlers are attached and the window is
\* returned.
LoadFinished(w) ==
  /\ bw[w].pc = "loading"
  /\ ~IsDestroyed(w)
  /\ bw' = [bw EXCEPT ![w].pc = "done"]
  /\ styled' = <<>>
  /\ reply' = NoReply
  /\ trayCalls' = 0
  /\ threw' = FALSE
  /\ UNCHANGED <<windows, inbox, currentUIStyle, closeToTrayEnabled,
                 onTrayVisibilityUpdate, eventHandlers, emitted, dispatched,
                 issued, removed, platform>>

\* window.once('ready-to-show'): show the window and, with tab data, start
\* the 100 ms timer. The 'show' handler notifies the tray if it is attached.
ReadyToShow(w) ==
  /\ bw[w].status \in {"open", "closing"}
  /\ ~bw[w].ready
  /\ bw' = [bw EXCEPT ![w].ready = TRUE, ![w].visible = TRUE,
                      ![w].timer = (bw[w].tabData # <<>>)]
  /\ styled' = <<>>
  /\ reply' = NoReply
  /\ trayCalls' = IF bw[w].pc = "done" /\ ~bw[w].visible THEN TrayCalls ELSE 0
  /\ threw' = FALSE
  /\ UNCHANGED <<windows, inbox, currentUIStyle, closeToTrayEnabled,
                 onTrayVisibilityUpdate, eventHandlers, emitted, dispatched,
                 issued, removed, platform>>

\* The setTimeout callback: window.webContents.send('tab:initWithData', tabData).
\* On a destroyed window the send throws.
SeedTimer(w) ==
  /\ bw[w].timer
  /\ bw' = [bw EXCEPT ![w].timer = FALSE]
  /\ inbox' = IF IsDestroyed(w) THEN inbox
              ELSE [inbox EXCEPT ![w] =
                      Append(@, [ch |-> "tab:initWithData", val |-> bw[w].tabData[1]])]
  /\ styled' = <<>>
  /\ reply' = NoReply
  /\ trayCalls' = 0
  /\ threw' = IsDestroyed(w)
  /\ UNCHANGED <<windows, currentUIStyle, closeToTrayEnabled,
                 onTrayVisibilityUpdate, eventHandlers, emitted, dispatched,
                 issued, removed, platform>>

----------------------------------------------------------------------------
(* The lookups: they read the registry and change nothing.                 *)

\* ipcMain.handle('window:getAllIds'): Array.from(this.windows.keys()).
getAllIds == MapKeys(windows)

\* getWindow(id): this.windows.get(id) || null; {} stands for null.
\* A lookup that falls back to the first window, as getMainWindow does.
getWindowOrMain(id) ==
  IF MapHas(windows, id) THEN {MapGet(windows, id)}
  ELSE IF windows # <<>> THEN {windows[1].win} ELSE {}

getWindow(id) == IF MapHas(windows, id) THEN {MapGet(windows, id)} ELSE {}

----------------------------------------------------------------------------
(* The IPC handlers that act on windows.                                   *)

\* ipcMain.on('window:transferTab'): send 'tab:receive' to the target when the
\* lookup finds one, else nothing. The send throws on a destroyed window.
TransferTab(id, t) ==
  LET found == MapHas(windows, id)
      target == MapGet(windows, id)
  IN /\ t \notin dispatched
     /\ dispatched' = dispatched \cup {t}
     /\ inbox' = IF found /\ ~IsDestroyed(target)
                 THEN [inbox EXCEPT ![target] =
                         Append(@, [ch |-> "tab:receive", val |-> t])]
                 ELSE inbox
     /\ styled' = <<>>
     /\ reply' = NoReply
     /\ trayCalls' = 0
     /\ threw' = (found /\ IsDestroyed(target))
     /\ UNCHANGED <<windows, bw, currentUIStyle, closeToTrayEnabled,
                    onTrayVisibilityUpdate, eventHandlers, emitted, issued,
                    removed, platform>>

\* A forEach that passes over the windows that are not visible.
StyleTargetsVisible ==
  SelectSeq(MapValues(windows), LAMBDA w : bw[w].visible)

\* The windows this.windows.forEach visits, in order (line 106).
StyleTargets == MapValues(windows)

\* ipcMain.on('window:setUIStyle'): store the style, then applyWindowStyle on
\* every registered window.
SetUIStyle(style) ==
  /\ currentUIStyle' = style
  /\ bw' = [w \in WinIds |->
              IF \E i \in DOMAIN StyleTargets : StyleTargets[i] = w
              THEN applyWindowStyle(bw[w], style) ELSE bw[w]]
  /\ styled' = StyleTargets
  /\ reply' = NoReply
  /\ trayCalls' = 0
  /\ threw' = FALSE
  /\ UNCHANGED <<windows, inbox, closeToTrayEnabled, onTrayVisibilityUpdate,
                 eventHandlers, emitted, dispatched, issued, removed, platform>>

----------------------------------------------------------------------------
(* Close to tray.                                                          *)

SetCloseToTrayEnabled(enabled) ==
  /\ closeToTrayEnabled' = enabled
  /\ styled' = <<>>
  /\ reply' = NoReply
  /\ trayCalls' = 0
  /\ threw' = FALSE
  /\ UNCHANGED <<windows, bw, inbox, currentUIStyle, onTrayVisibilityUpdate,
                 eventHandlers, emitted, dispatched, issued, removed, platform>>

SetTrayVisibilityCallback ==
  /\ onTrayVisibilityUpdate' = TRUE
  /\ styled' = <<>>
  /\ reply' = NoReply
  /\ trayCalls' = 0
  /\ threw' = FALSE
  /\ UNCHANGED <<windows, bw, inbox, currentUIStyle, closeToTrayEnabled,
                 eventHandlers, emitted, dispatched, issued, removed, platform>>

\* The condition of the 'close' handler (line 217).
HideInsteadOfClose == closeToTrayEnabled /\ Len(windows) = 1

\* Whether a close request on window b is intercepted: only a window whose
\* createWindow call is past its await has the 'close' handler.
Intercepted(b) == b.pc = "done" /\ HideInsteadOfClose

\* window.close() on a live window: the 'close' event, then either
\* preventDefault() and hide(), or the window starts closing.
OnClose(b) ==
  IF b.status # "open" THEN b
  ELSE IF Intercepted(b) THEN [b EXCEPT !.visible = FALSE]
  ELSE [b EXCEPT !.status = "closing"]

\* A close request on one window: the user's close, or ipcMain.on('window:close').
CloseRequest(w) ==
  /\ bw[w].status = "open"
  /\ bw' = [bw EXCEPT ![w] = OnClose(bw[w])]
  /\ styled' = <<>>
  /\ reply' = NoReply
  /\ trayCalls' = IF Intercepted(bw[w]) THEN TrayCalls ELSE 0
  /\ threw' = FALSE
  /\ UNCHANGED <<windows, inbox, currentUIStyle, closeToTrayEnabled,
                 onTrayVisibilityUpdate, eventHandlers, emitted, dispatched,
                 issued, removed, platform>>

\* The window is destroyed and 'closed' is emitted: with the handler attached,
\* the id is deleted from the registry and the tray is notified.
WindowClosed(w) ==
  LET attached == bw[w].pc = "done"
  IN /\ bw[w].status = "closing"
     /\ bw' = [bw EXCEPT ![w].status = "destroyed", ![w].visible = FALSE]
     /\ windows' = IF attached THEN MapDelete(windows, bw[w].windowId) ELSE windows
     /\ removed' = IF attached THEN removed \cup {bw[w].windowId} ELSE removed
     /\ styled' = <<>>
     /\ reply' = NoReply
     /\ trayCalls' = IF attached THEN TrayCalls ELSE 0
     /\ threw' = FALSE
     /\ UNCHANGED <<inbox, currentUIStyle, closeToTrayEnabled,
                    onTrayVisibilityUpdate, eventHandlers, emitted, dispatched,
                    issued, platform>>

\* A hidden window is shown again (the tray restores it): the 'show' handler
\* notifies the tray.
ShowWindow(w) ==
  /\ bw[w].status = "open"
  /\ bw[w].ready
  /\ ~bw[w].visible
  /\ bw' = [bw EXCEPT ![w].visible = TRUE]
  /\ styled' = <<>>
  /\ reply' = NoReply
  /\ trayCalls' = IF bw[w].pc = "done" THEN TrayCalls ELSE 0
  /\ threw' = FALSE
  /\ UNCHANGED <<windows, inbox, currentUIStyle, closeToTrayEnabled,
                 onTrayVisibilityUpdate, eventHandlers, emitted, dispatched,
                 issued, removed, platform>>

----------------------------------------------------------------------------
(* The registry entries a forEach visits before a destroyed window makes   *)
(* the callback throw.                                                     *)

FirstDestroyed(m) ==
  IF \E i \in DOMAIN m : IsDestroyed(m[i].win)
  THEN CHOOSE i \in DOMAIN m :
         /\ IsDestroyed(m[i].win)
         /\ \A j \in 1..(i - 1) : ~IsDestroyed(m[j].win)
  ELSE Len(m) + 1

Visited(m) == {m[i].win : i \in 1..(FirstDestroyed(m) - 1)}
Throws(m) == FirstDestroyed(m) <= Len(m)

\* closeAllWindows(): window.close() on every registered window.
CloseAllWindows ==
  /\ windows # <<>>
  /\ bw' = [w \in WinIds |-> IF w \in Visited(windows) THEN OnClose(bw[w]) ELSE bw[w]]
  /\ styled' = <<>>
  /\ reply' = NoReply
  /\ trayCalls' = IF \E w \in Visited(windows) :
                       bw[w].status = "open" /\ Intercepted(bw[w])
                  THEN TrayCalls ELSE 0
  /\ threw' = Throws(windows)
  /\ UNCHANGED <<windows, inbox, currentUIStyle, closeToTrayEnabled,
                 onTrayVisibilityUpdate, eventHandlers, emitted, dispatched,
                 issued, removed, platform>>

----------------------------------------------------------------------------
(* The backend event fan-out.                                              *)

Copies(msg, n) == [i \in 1..n |-> msg]

\* n calls of the callback given to zmqBridge.onEvent (lines 200-204), each
\* sending 'xp:event' to every registered window.
FanOut(box, event, n) ==
  [w \in WinIds |->
     IF w \in Visited(windows)
     THEN box[w] \o Copies([ch |-> "xp:event", val |-> event], n)
     ELSE box[w]]

\* How many of its callbacks the bridge calls for one event: all of them, or,
\* when the callbacks throw, the first alone or all of them.
bridgeDispatch(handlers, throws) ==
  IF throws /\ handlers > 0 THEN {1, handlers} ELSE {handlers}

\* The bridge receives the next backend event and calls its callbacks.
EmitEvent ==
  /\ emitted < MaxEvents
  /\ emitted' = emitted + 1
  /\ \E n \in bridgeDispatch(eventHandlers, Throws(windows)) :
       inbox' = FanOut(inbox, emitted + 1, n)
  /\ styled' = <<>>
  /\ reply' = NoReply
  /\ trayCalls' = 0
  /\ threw' = (Throws(windows) /\ eventHandlers > 0)
  /\ UNCHANGED <<windows, bw, currentUIStyle, closeToTrayEnabled,
                 onTrayVisibilityUpdate, eventHandlers, dispatched, issued,
                 removed, platform>>

----------------------------------------------------------------------------
(* The requests that look a window up by id. this.windows.get(id) is       *)
(* getWindow(id); a method called on a destroyed window throws.            *)

\* The lookup handlers change nothing but the record of the request.
LookupFrame ==
  /\ styled' = <<>>
  /\ trayCalls' = 0
  /\ UNCHANGED <<windows, bw, currentUIStyle, closeToTrayEnabled,
                 onTrayVisibilityUpdate, eventHandlers, emitted, dispatched,
                 issued, removed, platform>>

\* The public method getWindow(id).
GetWindow(id) ==
  /\ reply' = [req |-> "getWindow", ret |-> getWindow(id), focused |-> {}]
  /\ threw' = FALSE
  /\ inbox' = inbox
  /\ LookupFrame

\* ipcMain.handle('window:getBounds'): window.getBounds(), or null.
GetBounds(id) ==
  LET found == getWindow(id)
      live == {w \in found : ~IsDestroyed(w)}
  IN /\ reply' = [req |-> "window:getBounds",
                  ret |-> {[boundsOf |-> w] : w \in live}, focused |-> {}]
     /\ threw' = (found # live)
     /\ inbox' = inbox
     /\ LookupFrame

\* The 'tab:dropIndicator' messages delivered so far.
Indicators ==
  Cardinality(UNION {{<<w, i>> : i \in {j \in DOMAIN inbox[w] :
                                         inbox[w][j].ch = "tab:dropIndicator"}} :
                     w \in WinIds})

\* ipcMain.on('window:showDropIndicator'): send 'tab:dropIndicator' to the
\* target, if there is one.
ShowDropIndicator(id, show) ==
  LET found == getWindow(id)
      live == {w \in found : ~IsDestroyed(w)}
  IN /\ live # {} => Indicators < MaxIndicators
     /\ reply' = [req |-> "window:showDropIndicator", ret |-> {}, focused |-> {}]
     /\ threw' = (found # live)
     /\ inbox' = [w \in WinIds |->
                    IF w \in live
                    THEN Append(inbox[w], [ch |-> "tab:dropIndicator", val |-> show])
                    ELSE inbox[w]]
     /\ LookupFrame

\* ipcMain.on('window:focus'): window.focus() on the target, if there is one.
Focus(id) ==
  LET found == getWindow(id)
      live == {w \in found : ~IsDestroyed(w)}
  IN /\ reply' = [req |-> "window:focus", ret |-> {}, focused |-> live]
     /\ threw' = (found # live)
     /\ inbox' = inbox
     /\ LookupFrame

----------------------------------------------------------------------------
(* The window life cycle and the tray rule. The three remaining handlers  *)
(* (window:transferTab, window:setUIStyle, the backend event) write only    *)
(* inbox, dispatched, emitted, currentUIStyle and the windows' bg and       *)
(* material, which no life-cycle handler reads; each is run together with   *)
(* the life cycle in a specification of its own.                            *)

Next ==
  \/ CreateMainWindow
  \/ \E t \in Tabs : CreateWithTab(t)
  \/ \E w \in WinIds : LoadFinished(w)
  \/ \E w \in WinIds : ReadyToShow(w)
  \/ \E w \in WinIds : SeedTimer(w)
  \/ \E enabled \in BOOLEAN : SetCloseToTrayEnabled(enabled)
  \/ SetTrayVisibilityCallback
  \/ \E w \in WinIds : CloseRequest(w)
  \/ \E w \in WinIds : WindowClosed(w)
  \/ \E w \in WinIds : ShowWindow(w)
  \/ CloseAllWindows

NextTabs ==
  \/ Next
  \/ \E id \in RequestIds, t \in Tabs : TransferTab(id, t)

NextEvents ==
  \/ Next
  \/ EmitEvent

NextLookup ==
  \/ Next
  \/ \E id \in RequestIds : GetWindow(id)
  \/ \E id \in RequestIds : GetBounds(id)
  \/ \E id \in RequestIds, show \in BOOLEAN : ShowDropIndicator(id, show)
  \/ \E id \in RequestIds : Focus(id)

NextStyle ==
  \/ Next
  \/ \E style \in Styles : SetUIStyle(style)

Spec == Init /\ [][Next]_vars
SpecTabs == Init /\ [][NextTabs]_vars
SpecEvents == Init /\ [][NextEvents]_vars
SpecStyle == InitAnyPlatform /\ [][NextStyle]_vars
SpecLookup == Init /\ [][NextLookup]_vars

----------------------------------------------------------------------------
(* Properties.                                                             *)

\* Window w is a value of the registry.
Registered(w) == \E i \in DOMAIN windows : windows[i].win = w

\* The number of times msg is in a window's inbox.
Count(box, msg) == Cardinality({i \in DOMAIN box : box[i] = msg})

\* The backend events a window has received, in order.
IsXpEvent(msg) == msg.ch = "xp:event"
XpEvents(box) ==
  LET evs == SelectSeq(box, IsXpEvent)
  IN [i \in DOMAIN evs |-> evs[i].val]

\* C1: in every state the ids window:getAllIds returns are exactly the ids
\* createWindow has issued minus those the 'closed' callbacks have removed,
\* and no id was issued twice.
C1_RegistryIsIssuedMinusRemoved ==
  /\ getAllIds = {issued[i] : i \in DOMAIN issued} \ removed
  /\ \A i, j \in DOMAIN issued : i # j => issued[i] # issued[j]
  /\ \A v, w \in WinIds :
       (v # w /\ bw[v].status # "none" /\ bw[w].status # "none")
         => bw[v].windowId # bw[w].windowId

\* C1 witness: one id has been removed by a 'closed' callback while another
\* window is still registered.
C1_Witness ==
  /\ removed # {}
  /\ windows # <<>>
  /\ Len(issued) >= 2

\* C2: a window:transferTab whose target id is in the registry appends exactly
\* one 'tab:receive' with the tab to the target's inbox, sends nothing to any
\* other window, creates no window and leaves the registry as it is.
C2_TransferReachesTargetOnce ==
  [][\A id \in RequestIds, t \in Tabs :
       (TransferTab(id, t) /\ MapHas(windows, id)) =>
         /\ inbox'[MapGet(windows, id)] =
              Append(inbox[MapGet(windows, id)], [ch |-> "tab:receive", val |-> t])
         /\ \A w \in WinIds : w # MapGet(windows, id) => inbox'[w] = inbox[w]
         /\ windows' = windows
         /\ issued' = issued]_vars

\* C3: a window:transferTab whose target id is not in the registry creates
\* exactly one new window, registered and seeded with the tab, and throws
\* nothing.
C3_StaleTargetOpensWindow ==
  [][\A id \in RequestIds, t \in Tabs :
       (TransferTab(id, t) /\ ~MapHas(windows, id)) =>
         /\ Len(issued') = Len(issued) + 1
         /\ Len(windows') = Len(windows) + 1
         /\ \E w \in WinIds :
              /\ bw[w].status = "none"
              /\ bw'[w].status = "open"
              /\ bw'[w].tabData = <<t>>
         /\ ~threw']_vars

\* The message the seeding timer sends for tab t.
SeedMsg(t) == [ch |-> "tab:initWithData", val |-> t]

\* C4: every window:createWithTab adds exactly one entry to the registry, for
\* a new window; the tab is in that window's inbox at most once, in no other
\* window's inbox, and exactly once when the seeding timer has run.
C4_CreateWithTabSeedsOnce ==
  /\ [][\A t \in Tabs : CreateWithTab(t) =>
          /\ Len(windows') = Len(windows) + 1
          /\ \E w \in WinIds :
               /\ bw[w].status = "none"
               /\ windows' = Append(windows, [key |-> bw'[w].windowId, win |-> w])]_vars
  /\ [](\A w \in WinIds : bw[w].tabData # <<>> =>
          /\ Count(inbox[w], SeedMsg(bw[w].tabData[1])) <= 1
          /\ \A v \in WinIds \ {w} :
               Count(inbox[v], SeedMsg(bw[w].tabData[1])) = 0
          /\ (bw[w].ready /\ ~bw[w].timer) =>
               Count(inbox[w], SeedMsg(bw[w].tabData[1])) = 1)

\* C5: once window:createWithTab has returned for a window that is still
\* registered, the id it returned is one of window:getAllIds and getWindow
\* of it is that window.
C5_ReturnedIdIsRegistryKey ==
  \A w \in WinIds :
    (/\ bw[w].caller = "window:createWithTab"
     /\ bw[w].pc = "done"
     /\ Registered(w))
    => /\ createWithTabReply(w) \in getAllIds
       /\ getWindow(createWithTabReply(w)) = {w}

\* C6: each backend event is received exactly once, after the earlier ones, by
\* every window registered when it is emitted, and by no other window; so a
\* window registered throughout E1, E2, E3 has received E1, E2, E3 and one
\* removed before E3 has received E1, E2.
C6_EventsInOrderOncePerWindow ==
  [][EmitEvent =>
       \A w \in WinIds :
         XpEvents(inbox'[w]) =
           IF Registered(w) THEN Append(XpEvents(inbox[w]), emitted + 1)
           ELSE XpEvents(inbox[w])]_vars

\* C7: at most one callback is ever subscribed to the backend event stream,
\* and no window has received the same backend event twice.
C7_SubscribedOnceDeliveredOnce ==
  /\ eventHandlers <= 1
  /\ \A w \in WinIds, e \in Events :
       Count(inbox[w], [ch |-> "xp:event", val |-> e]) <= 1

\* C8: a window constructed while the current style is glass is in the glass
\* style from its construction: applying glass to it would change nothing.
C8_NewWindowHasCurrentStyle ==
  [][\A w \in WinIds :
       (/\ bw[w].status = "none"
        /\ bw'[w].status = "open"
        /\ currentUIStyle = "glass")
       => bw'[w] = applyWindowStyle(bw'[w], "glass")]_vars

\* C9: with close-to-tray enabled, a tray callback set and one window in the
\* registry, a close request leaves the registry as it is, leaves the window
\* open and hidden, and calls the tray callback once.
C9_LastWindowHidesToTray ==
  [][\A w \in WinIds :
       (/\ CloseRequest(w)
        /\ closeToTrayEnabled
        /\ onTrayVisibilityUpdate
        /\ Len(windows) = 1)
       => /\ windows' = windows
          /\ bw'[w].status = "open"
          /\ ~bw'[w].visible
          /\ trayCalls' = 1]_vars

\* C10: with close-to-tray enabled and two windows in the registry, a close
\* request hides no window and starts the close of its window, and the
\* window's destruction removes its id from the registry.
C10_NotLastWindowCloses ==
  [][\A w \in WinIds :
       /\ (CloseRequest(w) /\ closeToTrayEnabled /\ Len(windows) = 2)
            => /\ bw'[w].status = "closing"
               /\ \A v \in WinIds : bw'[v].visible = bw[v].visible
       /\ (WindowClosed(w) /\ closeToTrayEnabled /\ Len(windows) = 2)
            => /\ bw'[w].status = "destroyed"
               /\ ~MapHas(windows', bw[w].windowId)
               /\ Len(windows') = 1]_vars

\* C11: a window:setUIStyle(s) stores s as the current style and calls
\* applyWindowStyle once on every window registered at that moment and on no
\* other, each getting the effect of style s; no other handler changes the
\* stored style, which is classic at the start.
C11_SetStyleStoresAndAppliesOnce ==
  /\ [][\A s \in Styles : SetUIStyle(s) =>
          /\ currentUIStyle' = s
          /\ \A w \in WinIds :
               /\ Cardinality({i \in DOMAIN styled' : styled'[i] = w})
                    = IF Registered(w) THEN 1 ELSE 0
               /\ (Registered(w) /\ ~IsDestroyed(w) /\ platform.win32) =>
                    /\ bw'[w].bg = IF s = "glass" THEN "#00000000" ELSE "#00000001"
                    /\ platform.material =>
                         bw'[w].material = IF s = "glass" THEN "acrylic" ELSE "none"
          /\ ~threw']_vars
  /\ [][currentUIStyle' # currentUIStyle =>
          \E s \in Styles : SetUIStyle(s) /\ currentUIStyle' = s]_vars
  /\ currentUIStyle = "classic"

\* C11 witness: the last handler set glass and styled two registered windows.
C11_Witness ==
  /\ currentUIStyle = "glass"
  /\ Len(styled) = 2
  /\ Len(windows) = 2

\* C12: a window is visible, has its seeding timer running or has received
\* its seeded tab only if its 'ready-to-show' has fired; and only the
\* 'ready-to-show' step makes a window visible for the first time.
C12_ShowAndSeedOnlyAfterReady ==
  /\ [](\A w \in WinIds :
          (\/ bw[w].visible
           \/ bw[w].timer
           \/ \E i \in DOMAIN inbox[w] : inbox[w][i].ch = "tab:initWithData")
          => bw[w].ready)
  /\ [][\A w \in WinIds :
          (~bw[w].ready /\ bw'[w].visible) => (ReadyToShow(w) /\ bw'[w].ready)]_vars

\* C12 witness: a window made by window:createWithTab is ready, visible and
\* has received its tab.
C12_Witness ==
  \E w \in WinIds :
    /\ bw[w].ready
    /\ bw[w].visible
    /\ bw[w].tabData # <<>>
    /\ Count(inbox[w], SeedMsg(bw[w].tabData[1])) = 1

\* C13: closeAllWindows() throws nothing and puts a close request to every
\* registered window, once each, and to no other; and with close-to-tray
\* disabled the destruction of a window removes its id from the registry.
C13_CloseAllClosesEveryWindow ==
  /\ [][CloseAllWindows =>
          /\ ~threw'
          /\ \A w \in WinIds :
               bw'[w] = IF Registered(w) THEN OnClose(bw[w]) ELSE bw[w]]_vars
  /\ [][\A w \in WinIds :
          (WindowClosed(w) /\ ~closeToTrayEnabled)
            => ~MapHas(windows', bw[w].windowId)]_vars

\* C14: every id of the registry refers to a window that has not been
\* destroyed, and the destruction of a registered window, whatever step of
\* createWindow it interleaves with, removes its id from the registry.
C14_RegistryHoldsLiveWindowsOnly ==
  /\ [](\A w \in WinIds : Registered(w) => ~IsDestroyed(w))
  /\ [][\A w \in WinIds :
          (Registered(w) /\ ~IsDestroyed(w) /\ bw'[w].status = "destroyed")
            => ~MapHas(windows', bw[w].windowId)]_vars

\* C15: the fan-out of a backend event throws nothing, whatever windows are
\* closing or destroyed, and every registered window that is not destroyed
\* receives the event.
C15_FanOutNeverThrows ==
  [][EmitEvent =>
       /\ ~threw'
       /\ \A w \in WinIds :
            (Registered(w) /\ ~IsDestroyed(w)) =>
              Count(inbox'[w], [ch |-> "xp:event", val |-> emitted']) >= 1]_vars

\* C16: with the tray callback set, a close request that is not intercepted
\* notifies nothing by itself, and the destruction that follows it makes
\* exactly one tray notification, with the window destroyed and its id out
\* of the registry.
C16_OneTrayCallAfterDestruction ==
  /\ [][\A w \in WinIds :
          (CloseRequest(w) /\ ~Intercepted(bw[w])) => trayCalls' = 0]_vars
  /\ [][\A w \in WinIds :
          (WindowClosed(w) /\ onTrayVisibilityUpdate) =>
            /\ trayCalls' = 1
            /\ bw'[w].status = "destroyed"
            /\ ~MapHas(windows', bw[w].windowId)]_vars

\* C17: with the tray callback set, every step that takes a registered
\* window from hidden to visible, its first show on 'ready-to-show' included,
\* calls the tray callback.
C17_ShowNotifiesTray ==
  [][\A w \in WinIds :
       (/\ Registered(w)
        /\ onTrayVisibilityUpdate
        /\ ~bw[w].visible
        /\ bw'[w].visible) => trayCalls' >= 1]_vars

\* C18: getWindow, window:getBounds, window:showDropIndicator and
\* window:focus with an id that is not a key of the registry return null (or
\* nothing), focus nothing, throw nothing, send nothing and leave the registry,
\* the windows and the current style as they were.
C18_LookupMissIsHarmless ==
  [][\A id \in RequestIds :
       (/\ ~MapHas(windows, id)
        /\ \/ GetWindow(id)
           \/ GetBounds(id)
           \/ Focus(id)
           \/ \E show \in BOOLEAN : ShowDropIndicator(id, show))
       => /\ reply'.ret = {}
          /\ reply'.focused = {}
          /\ ~threw'
          /\ inbox' = inbox
          /\ windows' = windows
          /\ bw' = bw
          /\ currentUIStyle' = currentUIStyle]_vars

\* C18 witness: a drop-indicator request was the last handler, a live window
\* is registered, and the request neither sent nor threw: its id was a miss.
C18_Witness ==
  /\ reply.req = "window:showDropIndicator"
  /\ \E w \in WinIds : Registered(w) /\ ~IsDestroyed(w)
  /\ Indicators = 0
  /\ ~threw

\* C19: with close-to-tray enabled and no close pending on any registered
\* window, a close request (on one window, or closeAllWindows on several in
\* the same turn, during a content load or after it) never leaves the
\* registry without an open window: the last one is hidden, not closed.
C19_TrayKeepsRegistryNonEmpty ==
  [][(/\ closeToTrayEnabled
      /\ windows # <<>>
      /\ \A w \in WinIds : Registered(w) => bw[w].status = "open"
      /\ \/ CloseAllWindows
         \/ \E w \in WinIds : Registered(w) /\ CloseRequest(w))
     => \E w \in WinIds : Registered(w) /\ bw'[w].status = "open"]_vars

\* C20: when the seeding timer fires for a window that is destroyed or no
\* longer registered, nothing is sent and nothing throws.
C20_SeedTimerSparesDestroyedWindow ==
  [][\A w \in WinIds :
       (SeedTimer(w) /\ (IsDestroyed(w) \/ ~Registered(w)))
         => (~threw' /\ inbox' = inbox)]_vars

====
